---- MODULE Spec2Model ----
(***************************************************************************)
(* A model of tileimg/layoutimg (jiro4989/layoutimg): Main, minMaxXY and   *)
(* splitHyphen of main.go, in its two variants:                            *)
(*   extended = TRUE   src/main.go          (literal "R,G,B" fill colors)  *)
(*   extended = FALSE  src/unnamed/part_000 (color names only)             *)
(* Strings are sequences of one-character strings.                         *)
(***************************************************************************)
EXTENDS Integers, Sequences, FiniteSets, TLC

VARIABLES
    extended,   \* which variant of Main runs
    config,     \* Config, bound from the command line
    env,        \* what the collaborators do: docopt, os.Create, png.Encode
    args,       \* config.Args
    pc,         \* position of Main
    i,          \* index in config.Args of the arg the loop is at (1-based)
    dest,       \* the *image.RGBA canvas, or NoImage before it is made
    dp,         \* the drawParam last handed to draw, or NoDp
    exit,       \* <<>> while Main has not returned, <<code>> once it has
    encoded,    \* png.Encode has been called
    out,        \* what w has received: NoImage or the encoded image
    s,          \* unit harness: the string handed to minMaxXY
    res         \* unit harness: what minMaxXY returned, or NoRes

vars == <<extended, config, env, args, pc, i, dest, dp, exit, encoded, out, s, res>>

----------------------------------------------------------------------------
(* Bounds *)

MaxLen == 5

MaxArgs == 2

----------------------------------------------------------------------------
(* Exit codes *)

exitCodeOK == 0

exitCodeArgsError == 1

exitCodeOpenFileError == 2

exitCodeRectangleError == 3

exitCodeImageEncodeError == 4

exitCodeColorError == 5

----------------------------------------------------------------------------
(* package strings, package strconv *)

Digits == <<"0", "1", "2", "3", "4", "5", "6", "7", "8", "9">>

IsDigit(c) == \E d \in 1..10 : Digits[d] = c

DigitVal(c) == (CHOOSE d \in 1..10 : Digits[d] = c) - 1

\* strings.Contains(str, sep) for a one-character sep
Contains(str, sep) == \E k \in 1..Len(str) : str[k] = sep

\* strings.Index(str, sep) + 1 for a one-character sep that str contains
IndexOf(str, sep) ==
    CHOOSE k \in 1..Len(str) : str[k] = sep /\ \A j \in 1..(k - 1) : str[j] # sep

\* strings.Split(str, sep) for a one-character sep
RECURSIVE Split(_, _)
Split(str, sep) ==
    IF ~Contains(str, sep)
    THEN <<str>>
    ELSE LET k == IndexOf(str, sep)
         IN  <<SubSeq(str, 1, k - 1)>> \o Split(SubSeq(str, k + 1, Len(str)), sep)

\* the value of a string of decimal digits
RECURSIVE DecimalValue(_)
DecimalValue(ds) ==
    IF Len(ds) = 0
    THEN 0
    ELSE 10 * DecimalValue(SubSeq(ds, 1, Len(ds) - 1)) + DigitVal(ds[Len(ds)])

AllDigits(ds) == \A k \in 1..Len(ds) : IsDigit(ds[k])

\* strconv.IntSize: the width of int on the build (64-bit)
IntSize == 64

\* An int is held as [neg, mag]: its sign and the decimal digits of its
\* magnitude without leading zeros, so that no width is lost.

\* a non-empty string of digits without its leading zeros
RECURSIVE Canon(_)
Canon(ds) ==
    IF Len(ds) > 1 /\ ds[1] = "0" THEN Canon(Tail(ds)) ELSE ds

\* a < b for magnitudes without leading zeros
DigitsLess(a, b) ==
    \/ Len(a) < Len(b)
    \/ /\ Len(a) = Len(b)
       /\ \E k \in 1..Len(a) :
             /\ DigitVal(a[k]) < DigitVal(b[k])
             /\ \A j \in 1..(k - 1) : a[j] = b[j]

\* the magnitude of the largest int, 2^(IntSize-1) - 1
MaxIntDigits ==
    IF IntSize = 64
    THEN <<"9", "2", "2", "3", "3", "7", "2", "0", "3", "6",
           "8", "5", "4", "7", "7", "5", "8", "0", "7">>
    ELSE <<"2", "1", "4", "7", "4", "8", "3", "6", "4", "7">>

\* the magnitude of the smallest int, 2^(IntSize-1)
MinIntDigits ==
    IF IntSize = 64
    THEN <<"9", "2", "2", "3", "3", "7", "2", "0", "3", "6",
           "8", "5", "4", "7", "7", "5", "8", "0", "8">>
    ELSE <<"2", "1", "4", "7", "4", "8", "3", "6", "4", "8">>

\* the largest uint, 2^IntSize - 1
MaxUintDigits ==
    IF IntSize = 64
    THEN <<"1", "8", "4", "4", "6", "7", "4", "4", "0", "7",
           "3", "7", "0", "9", "5", "5", "1", "6", "1", "5">>
    ELSE <<"4", "2", "9", "4", "9", "6", "7", "2", "9", "5">>

\* the smallest number above uint, 2^IntSize
OverUintDigits ==
    IF IntSize = 64
    THEN <<"1", "8", "4", "4", "6", "7", "4", "4", "0", "7",
           "3", "7", "0", "9", "5", "5", "1", "6", "1", "6">>
    ELSE <<"4", "2", "9", "4", "9", "6", "7", "2", "9", "6">>

\* the largest uint8
MaxUint8Digits == <<"2", "5", "5">>

\* the int 0, which Atoi returns with a syntax error
IntZero == [neg |-> FALSE, mag |-> <<"0">>]

\* a < b for ints
IntLess(a, b) ==
    IF a.neg # b.neg THEN a.neg
    ELSE IF a.neg THEN DigitsLess(b.mag, a.mag)
    ELSE DigitsLess(a.mag, b.mag)

\* the loop of strconv.ParseUint over ds from its k-th character, in base 10:
\* it returns at the first character that is no digit ("syntax") or that
\* takes the number read so far above maxVal ("range"), whichever comes first
RECURSIVE ScanUint(_, _, _)
ScanUint(ds, k, maxVal) ==
    IF k > Len(ds) THEN "ok"
    ELSE IF ~IsDigit(ds[k]) THEN "syntax"
    ELSE IF DigitsLess(maxVal, Canon(SubSeq(ds, 1, k))) THEN "range"
    ELSE ScanUint(ds, k + 1, maxVal)

\* strconv.Atoi: an optional sign, then one or more decimal digits.  A
\* syntax error comes with 0.  A range error comes with the nearest int: from
\* ParseUint when the digits read so far exceed uint, from ParseInt when the
\* whole number fits uint but not int.
Atoi(str) ==
    LET signed == Len(str) > 0 /\ str[1] \in {"+", "-"}
        ds     == IF signed THEN SubSeq(str, 2, Len(str)) ELSE str
        neg    == signed /\ str[1] = "-"
        scan   == IF Len(ds) = 0 THEN "syntax" ELSE ScanUint(ds, 1, MaxUintDigits)
        limit  == IF neg THEN [neg |-> TRUE, mag |-> MinIntDigits]
                  ELSE [neg |-> FALSE, mag |-> MaxIntDigits]
    IN  IF scan = "syntax"
        THEN [err |-> TRUE, v |-> IntZero]
        ELSE IF scan = "range"
        THEN [err |-> TRUE, v |-> limit]
        ELSE IF DigitsLess(limit.mag, Canon(ds))
        THEN [err |-> TRUE, v |-> limit]
        ELSE [err |-> FALSE,
              v   |-> [neg |-> neg /\ Canon(ds) # <<"0">>, mag |-> Canon(ds)]]

\* strconv.ParseUint(str, 10, 8): one or more decimal digits, at most 255.
\* A syntax error comes with 0, a range error with 255.
ParseUint8(str) ==
    LET scan == IF Len(str) = 0 THEN "syntax" ELSE ScanUint(str, 1, MaxUint8Digits)
    IN  IF scan = "syntax" THEN [err |-> TRUE, v |-> 0]
        ELSE IF scan = "range" THEN [err |-> TRUE, v |-> 255]
        ELSE [err |-> FALSE, v |-> DecimalValue(Canon(str))]

----------------------------------------------------------------------------
(* Arithmetic on int.  Main hands rectangle the ints that minMaxXY returned
   (rp.x = x), and Go's arithmetic on int wraps at IntSize bits, so it is done
   on words: an int in two's complement, as its NBytes bytes, lowest first.
   The other operand of a sum or product is a number of the model, below 2^22
   in magnitude: a cell size, a padding, a line width, a power of ten. *)

NBytes == IntSize \div 8

\* the k lowest bytes of the number n in two's complement
RECURSIVE Bytes(_, _)
Bytes(n, k) == IF k = 0 THEN <<>> ELSE <<n % 256>> \o Bytes(n \div 256, k - 1)

\* the word of a number of the model
WordOf(n) == Bytes(n, NBytes)

\* a * m + c from the k-th byte of a on, c the carry into it
RECURSIVE MulAddFrom(_, _, _, _)
MulAddFrom(a, m, k, c) ==
    IF k > NBytes THEN <<>>
    ELSE LET t == a[k] * m + c
         IN  <<t % 256>> \o MulAddFrom(a, m, k + 1, t \div 256)

\* a * m + c
MulAdd(a, m, c) == MulAddFrom(a, m, 1, c)

WordNegative(a) == a[NBytes] >= 128

\* the word of a string of decimal digits, six digits at a time
RECURSIVE WordOfDigits(_)
WordOfDigits(ds) ==
    IF Len(ds) <= 6 THEN WordOf(DecimalValue(ds))
    ELSE MulAdd(WordOfDigits(SubSeq(ds, 1, Len(ds) - 6)), 1000000,
                DecimalValue(SubSeq(ds, Len(ds) - 5, Len(ds))))

\* the word of an int
Word(v) == IF v.neg THEN MulAdd(WordOfDigits(v.mag), 0 - 1, 0) ELSE WordOfDigits(v.mag)

----------------------------------------------------------------------------
(* splitHyphen, minMaxXY *)

\* splitHyphen with the hyphen test left out: the whole token goes to Atoi
splitHyphenNoSplit(str) ==
    LET a == Atoi(str)
    IN  IF a.err THEN [err |-> TRUE, a |-> a.v, b |-> IntZero]
        ELSE [err |-> FALSE, a |-> a.v, b |-> a.v]

\* splitHyphen returning the two parts the wrong way round
splitHyphenSwapped(str) ==
    IF Contains(str, "-")
    THEN LET xs == Split(str, "-")
             a  == Atoi(xs[1])
             b  == Atoi(xs[2])
         IN  IF a.err THEN [err |-> TRUE, a |-> a.v, b |-> IntZero]
             ELSE IF b.err THEN [err |-> TRUE, a |-> a.v, b |-> b.v]
             ELSE [err |-> FALSE, a |-> b.v, b |-> a.v]
    ELSE splitHyphenNoSplit(str)

\* a and b are the named results: each holds what Atoi returned into it, or
\* the zero value if the function returned before assigning it
splitHyphen(str) ==
    IF Contains(str, "-")
    THEN LET xs == Split(str, "-")
             a  == Atoi(xs[1])
             b  == Atoi(xs[2])
         IN  IF a.err THEN [err |-> TRUE, a |-> a.v, b |-> IntZero]
             ELSE IF b.err THEN [err |-> TRUE, a |-> a.v, b |-> b.v]
             ELSE [err |-> FALSE, a |-> a.v, b |-> b.v]
    ELSE LET a == Atoi(str)
         IN  IF a.err THEN [err |-> TRUE, a |-> a.v, b |-> IntZero]
             ELSE [err |-> FALSE, a |-> a.v, b |-> a.v]

minMaxXY(str) ==
    IF ~Contains(str, ",")
    THEN [err |-> TRUE, x |-> IntZero, y |-> IntZero, x2 |-> IntZero, y2 |-> IntZero]
    ELSE LET fs == Split(str, ",")
             h1 == splitHyphen(fs[1])
             h2 == splitHyphen(fs[2])
         IN  IF h1.err
             THEN [err |-> TRUE, x |-> h1.a, y |-> IntZero, x2 |-> h1.b, y2 |-> IntZero]
             ELSE IF h2.err
             THEN [err |-> TRUE, x |-> h1.a, y |-> h2.a, x2 |-> h1.b, y2 |-> h2.b]
             ELSE [err |-> FALSE, x |-> h1.a, y |-> h2.a, x2 |-> h1.b, y2 |-> h2.b]

----------------------------------------------------------------------------
(* Colors.  A color is <<R, G, B, A>>. *)

Zero == <<0, 0, 0, 0>>

white == <<"w", "h", "i", "t", "e">>

black == <<"b", "l", "a", "c", "k">>

none == <<"n", "o", "n", "e">>

red == <<"r", "e", "d">>

green == <<"g", "r", "e", "e", "n">>

blue == <<"b", "l", "u", "e">>

\* the color table: name -> RGBA
colors ==
    [n \in {white, black, none, red, green, blue} |->
        CASE n = white -> <<255, 255, 255, 255>>
          [] n = black -> <<0, 0, 0, 255>>
          [] n = none  -> Zero
          [] n = red   -> <<255, 0, 0, 255>>
          [] n = green -> <<0, 255, 0, 255>>
          [] n = blue  -> <<0, 0, 255, 255>>]

\* c, ok := colors[name]: a missing key gives the zero value
colorsAt(name) ==
    IF name \in DOMAIN colors
    THEN [ok |-> TRUE, c |-> colors[name]]
    ELSE [ok |-> FALSE, c |-> Zero]

----------------------------------------------------------------------------
(* Geometry and drawing *)

\* Go's integer division truncates toward zero
GoDiv(a, b) ==
    IF (a >= 0) = (b > 0)
    THEN (IF a >= 0 THEN a ELSE 0 - a) \div (IF b > 0 THEN b ELSE 0 - b)
    ELSE 0 - ((IF a >= 0 THEN a ELSE 0 - a) \div (IF b > 0 THEN b ELSE 0 - b))

\* rectangle(rectangleParam): the pixel rectangle of one grid cell.  The cell
\* (rp.x, rp.y) and the corners are ints, held as words.
rectangle(rp) ==
    LET cellW == GoDiv(rp.width, rp.column)
        cellH == GoDiv(rp.height, rp.row)
    IN  [minX |-> MulAdd(rp.x, cellW, rp.pad),
         minY |-> MulAdd(rp.y, cellH, rp.pad),
         maxX |-> MulAdd(MulAdd(rp.x, 1, 1), cellW, 0 - rp.pad),
         maxY |-> MulAdd(MulAdd(rp.y, 1, 1), cellH, 0 - rp.pad)]

\* image.NewRGBA(image.Rect(0, 0, w, h)): every pixel the zero color
NewRGBA(w, h) ==
    [width |-> w, height |-> h,
     pix |-> [p \in (0..(w - 1)) \X (0..(h - 1)) |-> Zero]]

drawBackground(img, c) ==
    [img EXCEPT !.pix = [p \in DOMAIN img.pix |-> c]]

\* a line width num/den rounded to the nearest whole number of pixels
Round(lw) == (2 * lw.num + lw.den) \div (2 * lw.den)

\* an int as a number of the model, to compare it with the coordinates of a
\* pixel: itself from -2^23 to 2^23 - 1, the nearer of the two beyond them
Near(w) ==
    LET low == w[1] + 256 * w[2] + 65536 * w[3]
    IN  IF WordNegative(w)
        THEN IF w[3] >= 128 /\ \A k \in 4..NBytes : w[k] = 255
             THEN low - 16777216
             ELSE 0 - 8388608
        ELSE IF w[3] < 128 /\ \A k \in 4..NBytes : w[k] = 0
             THEN low
             ELSE 8388607

\* what draw makes of a drawParam before its pixel loop: the box from d.min's
\* top-left to d.max's bottom-right, the box inside the stroke's thickness,
\* and the two colors
Box(d) ==
    LET t == Round(d.lineWidth)
    IN  [minX |-> Near(d.min.minX), minY |-> Near(d.min.minY),
         maxX |-> Near(d.max.maxX), maxY |-> Near(d.max.maxY),
         innerMinX |-> Near(MulAdd(d.min.minX, 1, t)),
         innerMinY |-> Near(MulAdd(d.min.minY, 1, t)),
         innerMaxX |-> Near(MulAdd(d.max.maxX, 1, 0 - t)),
         innerMaxY |-> Near(MulAdd(d.max.maxY, 1, 0 - t)),
         strokeColor |-> d.strokeColor,
         fillColor |-> d.fillColor]

\* the pixel (px, py) lies in the box
InBox(b, px, py) ==
    /\ b.minX <= px /\ px < b.maxX
    /\ b.minY <= py /\ py < b.maxY

\* the pixel lies within the stroke's thickness of one of the four edges
OnBorder(b, px, py) ==
    /\ InBox(b, px, py)
    /\ \/ px < b.innerMinX
       \/ px >= b.innerMaxX
       \/ py < b.innerMinY
       \/ py >= b.innerMaxY

\* what draw writes at a pixel: <<color>>, or <<>> when it leaves the pixel alone
Written(b, px, py) ==
    IF ~InBox(b, px, py) THEN <<>>
    ELSE IF OnBorder(b, px, py) /\ b.strokeColor # colors[none] THEN <<b.strokeColor>>
    ELSE IF b.fillColor # colors[none] THEN <<b.fillColor>>
    ELSE <<>>

\* draw(dest, drawParam): pixels outside the buffer are not written
draw(img, d) ==
    LET b == Box(d)
    IN  [img EXCEPT !.pix =
            [p \in DOMAIN img.pix |->
                IF Written(b, p[1], p[2]) = <<>> THEN img.pix[p]
                ELSE Written(b, p[1], p[2])[1]]]

----------------------------------------------------------------------------
(* The body of Main's loop *)

\* the drawParam with r and r2 the wrong way round
drawParamOfSwapped(cfg, width, height, m, fillColor) ==
    LET rp == [x |-> Word(m.x), y |-> Word(m.y), column |-> cfg.Column, row |-> cfg.Row,
               width |-> width, height |-> height, pad |-> cfg.Pad]
        r  == rectangle(rp)
        r2 == rectangle([rp EXCEPT !.x = Word(m.x2), !.y = Word(m.y2)])
    IN  [min |-> r2, max |-> r,
         strokeColor |-> colorsAt(cfg.StrokeColor).c,
         fillColor |-> fillColor,
         lineWidth |-> cfg.LineWidth]

\* the drawParam spanning the two cells whichever comes first on each axis
drawParamOfSorted(cfg, width, height, m, fillColor) ==
    LET lo(a, b) == IF IntLess(b, a) THEN b ELSE a
        hi(a, b) == IF IntLess(b, a) THEN a ELSE b
        rp == [x |-> Word(lo(m.x, m.x2)), y |-> Word(lo(m.y, m.y2)),
               column |-> cfg.Column, row |-> cfg.Row,
               width |-> width, height |-> height, pad |-> cfg.Pad]
        r  == rectangle(rp)
        r2 == rectangle([rp EXCEPT !.x = Word(hi(m.x, m.x2)),
                                   !.y = Word(hi(m.y, m.y2))])
    IN  [min |-> r, max |-> r2,
         strokeColor |-> colorsAt(cfg.StrokeColor).c,
         fillColor |-> fillColor,
         lineWidth |-> cfg.LineWidth]

\* rp, r, r2 and dp of one iteration, from minMaxXY's result m
drawParamOf(cfg, width, height, m, fillColor) ==
    LET rp == [x |-> Word(m.x), y |-> Word(m.y), column |-> cfg.Column, row |-> cfg.Row,
               width |-> width, height |-> height, pad |-> cfg.Pad]
        r  == rectangle(rp)
        r2 == rectangle([rp EXCEPT !.x = Word(m.x2), !.y = Word(m.y2)])
    IN  [min |-> r, max |-> r2,
         strokeColor |-> colorsAt(cfg.StrokeColor).c,
         fillColor |-> fillColor,
         lineWidth |-> cfg.LineWidth]

\* the base variant taking a color the table lacks for an error
fillAndXYBaseStrict(arg, cfg) ==
    IF Contains(arg, ":")
    THEN LET f == Split(arg, ":")
         IN  IF colorsAt(f[1]).ok
             THEN [kind |-> "ok", fillColor |-> colorsAt(f[1]).c, xy |-> f[2]]
             ELSE [kind |-> "colorError", fillColor |-> Zero, xy |-> <<>>]
    ELSE [kind |-> "ok", fillColor |-> colorsAt(cfg.FillColor).c, xy |-> arg]

\* fill color and coordinate part of an arg, base variant:
\* kind is "ok"; a color the table lacks is the zero color
fillAndXYBase(arg, cfg) ==
    IF Contains(arg, ":")
    THEN LET f == Split(arg, ":")
         IN  [kind |-> "ok", fillColor |-> colorsAt(f[1]).c, xy |-> f[2]]
    ELSE [kind |-> "ok", fillColor |-> colorsAt(cfg.FillColor).c, xy |-> arg]

\* fill color and coordinate part of an arg, extended variant:
\* kind is "ok", "colorError" (a channel fails ParseUint) or
\* "panic" (cols[1] or cols[2] indexes past the end of cols)
fillAndXYExtended(arg, cfg) ==
    IF Contains(arg, ":")
    THEN LET f    == Split(arg, ":")
             look == colorsAt(f[1])
             cols == Split(f[1], ",")
         IN  IF look.ok
             THEN [kind |-> "ok", fillColor |-> look.c, xy |-> f[2]]
             ELSE IF Len(cols) < 3
             THEN [kind |-> "panic", fillColor |-> Zero, xy |-> <<>>]
             ELSE LET rr == ParseUint8(cols[1])
                      gg == ParseUint8(cols[2])
                      bb == ParseUint8(cols[3])
                  IN  IF rr.err \/ gg.err \/ bb.err
                      THEN [kind |-> "colorError", fillColor |-> Zero, xy |-> <<>>]
                      ELSE [kind |-> "ok",
                            fillColor |-> <<rr.v, gg.v, bb.v, 255>>,
                            xy |-> f[2]]
    ELSE [kind |-> "ok", fillColor |-> colorsAt(cfg.FillColor).c, xy |-> arg]

fillAndXY(ext, arg, cfg) ==
    IF ext THEN fillAndXYExtended(arg, cfg) ELSE fillAndXYBase(arg, cfg)

----------------------------------------------------------------------------
(* Inputs *)

NoImage == [absent |-> TRUE]

NoDp == [absent |-> TRUE]

NoRes == [absent |-> TRUE]

\* the option defaults of the usage text
DefaultConfig ==
    [Width |-> 200, Height |-> 200, Column |-> 4, Row |-> 4, Pad |-> 5,
     BackgroundColor |-> white, StrokeColor |-> black, FillColor |-> none,
     LineWidth |-> [num |-> 2, den |-> 1], OutFile |-> <<>>]

\* a small canvas whose width the columns do not divide; fills only; to stdout
SmallConfig ==
    [DefaultConfig EXCEPT !.Width = 7, !.Height = 4, !.Column = 3, !.Row = 2,
                          !.Pad = 0, !.StrokeColor = none]

\* a small padded canvas with a one-pixel stroke and a fill; to a file
StrokeConfig ==
    [DefaultConfig EXCEPT !.Width = 10, !.Height = 5, !.Column = 2, !.Row = 1,
                          !.Pad = 1, !.FillColor = red,
                          !.LineWidth = [num |-> 1, den |-> 2],
                          !.OutFile = <<"o">>]

Configs == {SmallConfig, StrokeConfig}

UnitConfigs == {DefaultConfig, SmallConfig, StrokeConfig}

\* the args of the runs
ArgPool ==
    { <<"0", ",", "0">>,
      red \o <<":", "0", "-", "1", ",", "0">>,
      blue \o <<":", "1", ",", "0", "-", "1">>,
      <<"2", "-", "1", ",", "0">>,
      <<"z", "z", ":", "0", ",", "0">>,
      <<"1", ",", "2", ":", "0", ",", "0">>,
      <<"1", ",", "2", ",", "3", ":", "1", ",", "0">>,
      <<"1", ",", "2", ",", "x", ":", "0", ",", "0">>,
      <<"1", ",", "2", ",", "3", ",", "4", ":", "0", ",", "0">>,
      <<"0">>,
      green \o <<":", "1", "-", "a", ",", "0">>,
      red \o <<":">> \o MaxIntDigits \o <<"-", "1", ",", "0">> }

ArgLists == UNION { [1..n -> ArgPool] : n \in 1..MaxArgs }

Envs == [argsErr : BOOLEAN, createErr : BOOLEAN, encodeErr : BOOLEAN]

\* the characters of the strings handed to minMaxXY
Chars == {"0", "1", "-", ",", "+", "a"}

\* coordinate tokens longer strings are made of
Tokens ==
    { <<"3">>, <<"1", "-", "4">>, <<"1", "-", "4", "-", "7">>, <<"2", "-", "1">>,
      <<"-", "3">>, <<"-", "1", "-", "2">>, <<"1", "-", "-", "3">>,
      <<"0">>, <<"1", "-", "2">>, <<"1", "0">>, <<"0", "7", "-", "1", "2">>,
      MaxIntDigits, MinIntDigits, OverUintDigits \o <<"a">> }

Inputs ==
    UNION { [1..n -> Chars] : n \in 0..MaxLen }
    \cup { tx \o <<",">> \o ty : tx \in Tokens, ty \in Tokens }

----------------------------------------------------------------------------
(* Main *)

Init ==
    /\ extended \in BOOLEAN
    /\ config \in Configs
    /\ env \in Envs
    /\ args \in ArgLists
    /\ pc = "start"
    /\ i = 0
    /\ dest = NoImage
    /\ dp = NoDp
    /\ exit = <<>>
    /\ encoded = FALSE
    /\ out = NoImage
    /\ s = <<>>
    /\ res = NoRes

\* Main returns code
Return(code) ==
    /\ pc' = "done"
    /\ exit' = <<code>>

\* docopt.ParseArgs fails
ParseArgsError ==
    /\ pc = "start"
    /\ env.argsErr
    /\ Return(exitCodeArgsError)
    /\ UNCHANGED <<extended, config, env, args, i, dest, dp, encoded, out, s, res>>

\* docopt.ParseArgs succeeds; opts.Bind(&config)
ParseArgsOK ==
    /\ pc = "start"
    /\ ~env.argsErr
    /\ pc' = "open"
    /\ UNCHANGED <<extended, config, env, args, i, dest, dp, exit, encoded, out, s, res>>

\* os.Create(config.OutFile) fails
OpenFileError ==
    /\ pc = "open"
    /\ config.OutFile # <<>>
    /\ env.createErr
    /\ Return(exitCodeOpenFileError)
    /\ UNCHANGED <<extended, config, env, args, i, dest, dp, encoded, out, s, res>>

\* w is os.Stdout or the created file; the canvas is made and filled
OpenFileOK ==
    /\ pc = "open"
    /\ config.OutFile = <<>> \/ ~env.createErr
    /\ dest' = drawBackground(NewRGBA(config.Width, config.Height),
                              colorsAt(config.BackgroundColor).c)
    /\ i' = 1
    /\ pc' = IF Len(args) = 0 THEN "encode" ELSE "loop"
    /\ UNCHANGED <<extended, config, env, args, dp, exit, encoded, out, s, res>>

\* the loop body at args[i]: indexing cols panics, Main never returns
ArgColorPanic ==
    /\ pc = "loop"
    /\ fillAndXY(extended, args[i], config).kind = "panic"
    /\ pc' = "panic"
    /\ UNCHANGED <<extended, config, env, args, i, dest, dp, exit, encoded, out, s, res>>

\* the loop body at args[i]: a color channel fails ParseUint
ArgColorError ==
    /\ pc = "loop"
    /\ fillAndXY(extended, args[i], config).kind = "colorError"
    /\ Return(exitCodeColorError)
    /\ UNCHANGED <<extended, config, env, args, i, dest, dp, encoded, out, s, res>>

\* the loop body with continue in place of return when minMaxXY fails
ArgRectangleSkip ==
    /\ pc = "loop"
    /\ LET f == fillAndXY(extended, args[i], config)
       IN  /\ f.kind = "ok"
           /\ minMaxXY(f.xy).err
    /\ i' = i + 1
    /\ pc' = IF i = Len(args) THEN "encode" ELSE "loop"
    /\ UNCHANGED <<extended, config, env, args, dest, dp, exit, encoded, out, s, res>>

\* the loop body at args[i]: minMaxXY fails
ArgRectangleError ==
    /\ pc = "loop"
    /\ LET f == fillAndXY(extended, args[i], config)
       IN  /\ f.kind = "ok"
           /\ minMaxXY(f.xy).err
    /\ Return(exitCodeRectangleError)
    /\ UNCHANGED <<extended, config, env, args, i, dest, dp, encoded, out, s, res>>

\* the loop body with the canvas made and filled anew by every iteration
ArgDrawFreshCanvas ==
    /\ pc = "loop"
    /\ LET f == fillAndXY(extended, args[i], config)
       IN  /\ f.kind = "ok"
           /\ ~minMaxXY(f.xy).err
           /\ dp' = drawParamOf(config, dest.width, dest.height,
                                minMaxXY(f.xy), f.fillColor)
    /\ dest' = draw(drawBackground(dest, colorsAt(config.BackgroundColor).c), dp')
    /\ i' = i + 1
    /\ pc' = IF i = Len(args) THEN "encode" ELSE "loop"
    /\ UNCHANGED <<extended, config, env, args, exit, encoded, out, s, res>>

\* the loop body at args[i], to its end: the rectangle is drawn
ArgDraw ==
    /\ pc = "loop"
    /\ LET f == fillAndXY(extended, args[i], config)
       IN  /\ f.kind = "ok"
           /\ ~minMaxXY(f.xy).err
           /\ dp' = drawParamOf(config, dest.width, dest.height,
                                minMaxXY(f.xy), f.fillColor)
    /\ dest' = draw(dest, dp')
    /\ i' = i + 1
    /\ pc' = IF i = Len(args) THEN "encode" ELSE "loop"
    /\ UNCHANGED <<extended, config, env, args, exit, encoded, out, s, res>>

\* png.Encode(w, dest) fails; no image reaches w
EncodeError ==
    /\ pc = "encode"
    /\ env.encodeErr
    /\ encoded' = TRUE
    /\ Return(exitCodeImageEncodeError)
    /\ UNCHANGED <<extended, config, env, args, i, dest, dp, out, s, res>>

\* png.Encode(w, dest) writes the image to w
EncodeOK ==
    /\ pc = "encode"
    /\ ~env.encodeErr
    /\ encoded' = TRUE
    /\ out' = dest
    /\ Return(exitCodeOK)
    /\ UNCHANGED <<extended, config, env, args, i, dest, dp, s, res>>

Next ==
    \/ ParseArgsError
    \/ ParseArgsOK
    \/ OpenFileError
    \/ OpenFileOK
    \/ ArgColorPanic
    \/ ArgColorError
    \/ ArgRectangleError
    \/ ArgDraw
    \/ EncodeError
    \/ EncodeOK

Spec == Init /\ [][Next]_vars

----------------------------------------------------------------------------
(* minMaxXY and the rectangles on their own *)

UnitInit ==
    /\ extended = TRUE
    /\ config = DefaultConfig
    /\ env = [argsErr |-> FALSE, createErr |-> FALSE, encodeErr |-> FALSE]
    /\ args = <<>>
    /\ pc = "unit"
    /\ i = 0
    /\ dest = NoImage
    /\ dp = NoDp
    /\ exit = <<>>
    /\ encoded = FALSE
    /\ out = NoImage
    /\ s \in Inputs
    /\ res = NoRes

\* x, y, x2, y2, err := minMaxXY(s)
UnitMinMaxXY ==
    /\ pc = "unit"
    /\ res' = minMaxXY(s)
    /\ pc' = "parsed"
    /\ UNCHANGED <<extended, config, env, args, i, dest, dp, exit, encoded, out, s>>

\* rp, r, r2, dp of the loop body, under some configuration
UnitDrawParam ==
    /\ pc = "parsed"
    /\ ~res.err
    /\ \E c \in UnitConfigs :
          /\ config' = c
          /\ dp' = drawParamOf(c, c.Width, c.Height, res, colorsAt(c.FillColor).c)
    /\ pc' = "mapped"
    /\ UNCHANGED <<extended, env, args, i, dest, exit, encoded, out, s, res>>

UnitNext ==
    \/ UnitMinMaxXY
    \/ UnitDrawParam

UnitSpec == UnitInit /\ [][UnitNext]_vars

----------------------------------------------------------------------------
(* The vocabulary of the properties *)

\* INT: one or more decimal digits
IsInt(t) == Len(t) >= 1 /\ AllDigits(t)

\* TOKEN := INT | INT "-" INT
IsToken(t) ==
    \/ IsInt(t)
    \/ \E k \in 1..Len(t) :
          /\ t[k] = "-"
          /\ IsInt(SubSeq(t, 1, k - 1))
          /\ IsInt(SubSeq(t, k + 1, Len(t)))

\* TOKEN "," TOKEN
WellFormedXY(str) ==
    \E k \in 1..Len(str) :
       /\ str[k] = ","
       /\ IsToken(SubSeq(str, 1, k - 1))
       /\ IsToken(SubSeq(str, k + 1, Len(str)))

\* start and end of a TOKEN
\* the digits of the start and of the end of a TOKEN
StartDigits(t) == IF IsInt(t) THEN t ELSE SubSeq(t, 1, IndexOf(t, "-") - 1)

EndDigits(t) == IF IsInt(t) THEN t ELSE SubSeq(t, IndexOf(t, "-") + 1, Len(t))

\* the non-negative integer that a string of digits writes
IntOf(ds) == [neg |-> FALSE, mag |-> Canon(ds)]

TokenStart(t) == IntOf(StartDigits(t))

TokenEnd(t) == IntOf(EndDigits(t))

\* both integers of a TOKEN fit in int
TokenFitsInt(t) ==
    /\ ~DigitsLess(MaxIntDigits, Canon(StartDigits(t)))
    /\ ~DigitsLess(MaxIntDigits, Canon(EndDigits(t)))

\* the token before the comma and the token after it, of a well-formed spec
XToken(str) == SubSeq(str, 1, IndexOf(str, ",") - 1)

YToken(str) == SubSeq(str, IndexOf(str, ",") + 1, Len(str))

\* a number with a minus sign in front: "-" INT
IsNegInt(t) == Len(t) >= 2 /\ t[1] = "-" /\ IsInt(SubSeq(t, 2, Len(t)))

\* a token with a negative number where the grammar has an INT:
\* "-3", "-1-2", "1--3", "-1--3"
IsNegativeToken(t) ==
    \/ IsNegInt(t)
    \/ \E k \in 2..Len(t) :
          /\ t[k] = "-"
          /\ \/ IsNegInt(SubSeq(t, 1, k - 1)) /\ IsInt(SubSeq(t, k + 1, Len(t)))
             \/ IsInt(SubSeq(t, 1, k - 1)) /\ IsNegInt(SubSeq(t, k + 1, Len(t)))
             \/ IsNegInt(SubSeq(t, 1, k - 1)) /\ IsNegInt(SubSeq(t, k + 1, Len(t)))

\* the harness has called minMaxXY
Parsed == pc \in {"parsed", "mapped"}

\* COLOR and XY of an arg "COLOR:XY"; XY is the whole arg when it has no colon
HasColor(arg) == Contains(arg, ":")

ColorPart(arg) == SubSeq(arg, 1, IndexOf(arg, ":") - 1)

XYPart(arg) ==
    IF HasColor(arg) THEN SubSeq(arg, IndexOf(arg, ":") + 1, Len(arg)) ELSE arg

IsChannel(t) == IsInt(t) /\ Len(Canon(t)) <= 3 /\ DecimalValue(Canon(t)) <= 255

\* a "R,G,B" decimal triplet, each channel in 0..255
IsTriplet(c) ==
    LET cols == Split(c, ",")
    IN  Len(cols) = 3 /\ \A k \in 1..3 : IsChannel(cols[k])

\* a known color name or a valid triplet
Resolvable(c) == c \in DOMAIN colors \/ IsTriplet(c)

\* the first three comma-separated parts of c are channels
LeadingTriplet(c) ==
    LET cols == Split(c, ",")
    IN  Len(cols) >= 3 /\ \A k \in 1..3 : IsChannel(cols[k])

\* the loop has dealt with args[k]: drawn it, or stopped at it
Processed(k) ==
    /\ k \in 1..Len(args)
    /\ \/ k < i
       \/ k = i /\ pc \in {"done", "panic"}

Terminated == pc \in {"done", "panic"}

\* the run got as far as the loop
ReachedLoop == ~env.argsErr /\ (config.OutFile = <<>> \/ ~env.createErr)

\* minMaxXY's result for args[k] and the drawParam the loop makes of it
CoordsOfArg(k) == minMaxXY(XYPart(args[k]))

DpOfArg(k) ==
    drawParamOf(config, config.Width, config.Height, CoordsOfArg(k),
                fillAndXY(extended, args[k], config).fillColor)

\* the boxes of the first n args, in input order
RECURSIVE BoxesOfArgs(_)
BoxesOfArgs(n) == IF n = 0 THEN <<>> ELSE Append(BoxesOfArgs(n - 1), Box(DpOfArg(n)))

Background == colorsAt(config.BackgroundColor).c

\* the specs among the first n that paint the pixel p
Painters(p, n) == { k \in 1..n : Written(Box(DpOfArg(k)), p[1], p[2]) # <<>> }

Last(S) == CHOOSE k \in S : \A j \in S : j <= k

\* the range of args[k] is reversed on some axis
Reversed(k) ==
    /\ ~CoordsOfArg(k).err
    /\ \/ IntLess(CoordsOfArg(k).x2, CoordsOfArg(k).x)
       \/ IntLess(CoordsOfArg(k).y2, CoordsOfArg(k).y)

----------------------------------------------------------------------------
(* C1 *)

\* the error of one arg, as the run meets it: 5 for a color that is no known
\* name and whose first three parts are not channels, 3 for coordinates that
\* minMaxXY rejects, 0 for none
ArgError(arg) ==
    IF extended /\ HasColor(arg) /\ ColorPart(arg) \notin DOMAIN colors
       /\ ~LeadingTriplet(ColorPart(arg))
    THEN exitCodeColorError
    ELSE IF minMaxXY(XYPart(arg)).err THEN exitCodeRectangleError
    ELSE exitCodeOK

FirstArgError ==
    IF \E k \in 1..Len(args) : ArgError(args[k]) # exitCodeOK
    THEN ArgError(args[CHOOSE k \in 1..Len(args) :
                          /\ ArgError(args[k]) # exitCodeOK
                          /\ \A j \in 1..(k - 1) : ArgError(args[j]) = exitCodeOK])
    ELSE exitCodeOK

FirstError ==
    IF env.argsErr THEN exitCodeArgsError
    ELSE IF config.OutFile # <<>> /\ env.createErr THEN exitCodeOpenFileError
    ELSE IF FirstArgError # exitCodeOK THEN FirstArgError
    ELSE IF env.encodeErr THEN exitCodeImageEncodeError
    ELSE exitCodeOK

\* C1: when the run is over, Main has returned the exit code of the first
\* error in execution order (args, output file, each spec's color then
\* coordinates, encode), and 0 exactly when there was none.
C1_ExitCodeOfFirstError ==
    Terminated => exit = <<FirstError>>

----------------------------------------------------------------------------
(* C2 *)

\* C2: once the loop has dealt with a spec whose coordinates minMaxXY
\* rejects, png.Encode has not been called and w has received nothing.
C2_NoOutputAfterRectangleError ==
    (\E k \in 1..Len(args) : Processed(k) /\ CoordsOfArg(k).err)
        => (~encoded /\ out = NoImage)

\* the second spec fails coordinate parsing after the first was drawn
C2_Witness ==
    /\ pc = "done"
    /\ exit = <<exitCodeRectangleError>>
    /\ i = 2
    /\ CoordsOfArg(2).err
    /\ \E p \in DOMAIN dest.pix : dest.pix[p] # Background
    /\ out = NoImage

----------------------------------------------------------------------------
(* C3 *)

\* C3: minMaxXY rejects every string that is not TOKEN "," TOKEN.
C3_GrammarViolationsRejected ==
    (Parsed /\ ~WellFormedXY(s)) => res.err

----------------------------------------------------------------------------
(* C4 *)

\* C4: for a well-formed spec over non-negative integers minMaxXY returns no
\* error, x and x2 the start and end of the token before the comma, y and y2
\* the start and end of the token after it.
C4_WellFormedParses ==
    (Parsed /\ WellFormedXY(s)) =>
        /\ ~res.err
        /\ res.x = TokenStart(XToken(s))
        /\ res.x2 = TokenEnd(XToken(s))
        /\ res.y = TokenStart(YToken(s))
        /\ res.y2 = TokenEnd(YToken(s))

\* C4, amended: the same for a well-formed spec over non-negative integers
\* that fit in int (at most 2^(IntSize-1) - 1).
C4_WellFormedInRangeParses ==
    (/\ Parsed
     /\ WellFormedXY(s)
     /\ TokenFitsInt(XToken(s))
     /\ TokenFitsInt(YToken(s))) =>
        /\ ~res.err
        /\ res.x = TokenStart(XToken(s))
        /\ res.x2 = TokenEnd(XToken(s))
        /\ res.y = TokenStart(YToken(s))
        /\ res.y2 = TokenEnd(YToken(s))

\* a range before the comma, the largest int after it, have been parsed
C4_Witness ==
    /\ pc = "parsed"
    /\ WellFormedXY(s)
    /\ ~IsInt(XToken(s))
    /\ YToken(s) = MaxIntDigits
    /\ ~res.err
    /\ DigitsLess(res.x.mag, res.x2.mag)
    /\ res.y = res.y2
    /\ res.y.mag = MaxIntDigits

----------------------------------------------------------------------------
(* C5 *)

\* C5: in the extended variant, once the loop has dealt with a spec whose
\* COLOR is neither a known name nor a valid triplet, Main has returned 5
\* and png.Encode has not been called.
C5_UnresolvableColorIsExit5 ==
    \A k \in 1..Len(args) :
        (/\ extended
         /\ Processed(k)
         /\ HasColor(args[k])
         /\ ~Resolvable(ColorPart(args[k])))
            => (pc = "done" /\ exit = <<exitCodeColorError>> /\ ~encoded)

----------------------------------------------------------------------------
(* C6 *)

UnknownColor(k) == HasColor(args[k]) /\ ColorPart(args[k]) \notin DOMAIN colors

\* C6: in the base variant a COLOR the table lacks is no error: Main never
\* returns 5 and never panics, it returns 3 only at a spec whose XY is
\* malformed, the spec is drawn with the zero color as its fill, which
\* paints no pixel (only the stroke does), and a run with well-formed XYs
\* and no failing collaborator returns 0.
C6_UnknownColorIsTransparent ==
    ~extended =>
        /\ pc # "panic"
        /\ exit # <<exitCodeColorError>>
        /\ exit = <<exitCodeRectangleError>> => ~WellFormedXY(XYPart(args[i]))
        /\ (i >= 2 /\ UnknownColor(i - 1)) =>
              /\ dp.fillColor = Zero
              /\ LET b == Box(dp)
                 IN  \A p \in DOMAIN dest.pix :
                         Written(b, p[1], p[2]) \in {<<>>, <<dp.strokeColor>>}
        /\ (/\ Terminated
            /\ ReachedLoop
            /\ ~env.encodeErr
            /\ \A k \in 1..Len(args) : WellFormedXY(XYPart(args[k])))
              => (exit = <<exitCodeOK>> /\ out = dest)

\* a base-variant run with a spec of unknown color has returned 0
C6_Witness ==
    /\ ~extended
    /\ pc = "done"
    /\ exit = <<exitCodeOK>>
    /\ \E k \in 1..Len(args) : UnknownColor(k) /\ WellFormedXY(XYPart(args[k]))
    /\ config.FillColor # none
    /\ dp.fillColor = Zero

----------------------------------------------------------------------------
(* C7 *)

\* C7: after the background fill and the first i-1 specs, each pixel holds
\* what the last of those specs that painted it wrote, or the background
\* color if none did; the image written at the end is that canvas.
C7_LastWriteWins ==
    /\ dest # NoImage =>
          LET boxes == BoxesOfArgs(i - 1)
              painters(p) == { k \in 1..(i - 1) : Written(boxes[k], p[1], p[2]) # <<>> }
          IN  \A p \in DOMAIN dest.pix :
                  LET ks   == painters(p)
                      last == Last(ks)
                  IN  dest.pix[p] =
                          IF ks = {} THEN Background
                          ELSE Written(boxes[last], p[1], p[2])[1]
    /\ out # NoImage => out = dest

\* two specs have painted one pixel in different colors; it holds the later one
C7_Witness ==
    /\ pc = "done"
    /\ exit = <<exitCodeOK>>
    /\ Len(args) = 2
    /\ \E p \in DOMAIN dest.pix :
          /\ Painters(p, 2) = {1, 2}
          /\ Written(Box(DpOfArg(1)), p[1], p[2]) # Written(Box(DpOfArg(2)), p[1], p[2])
          /\ out.pix[p] = Written(Box(DpOfArg(2)), p[1], p[2])[1]

----------------------------------------------------------------------------
(* C8 *)

Str12c0 == <<"1", "-", "2", ",", "0">>

Str0c0 == <<"0", ",", "0">>

\* a coordinate small enough for its products with the cell size to be
\* numbers of the model
SmallCoord(v) == ~v.neg /\ Len(v.mag) <= 6

\* C8: the drawParam has its top-left corner at the start cell's top-left and
\* its bottom-right corner at the end cell's bottom-right, with
\* cellW = width/columns and cellH = height/rows, in int arithmetic; for
\* small coordinates these are the numbers x*cellW + pad, y*cellH + pad,
\* (x2+1)*cellW - pad, (y2+1)*cellH - pad; under the defaults "1-2,0" gives
\* (55,5)-(145,45) and "0,0" gives (5,5)-(45,45).
C8_SpanCorners ==
    pc = "mapped" =>
        LET cellW == config.Width \div config.Column
            cellH == config.Height \div config.Row
            pad   == config.Pad
            corners == <<dp.min.minX, dp.min.minY, dp.max.maxX, dp.max.maxY>>
        IN  /\ dp.min.minX = MulAdd(Word(res.x), cellW, pad)
            /\ dp.min.minY = MulAdd(Word(res.y), cellH, pad)
            /\ dp.max.maxX = MulAdd(MulAdd(Word(res.x2), 1, 1), cellW, 0 - pad)
            /\ dp.max.maxY = MulAdd(MulAdd(Word(res.y2), 1, 1), cellH, 0 - pad)
            /\ (\A v \in {res.x, res.y, res.x2, res.y2} : SmallCoord(v)) =>
                  corners =
                      << WordOf(DecimalValue(res.x.mag) * cellW + config.Pad),
                         WordOf(DecimalValue(res.y.mag) * cellH + config.Pad),
                         WordOf((DecimalValue(res.x2.mag) + 1) * cellW - config.Pad),
                         WordOf((DecimalValue(res.y2.mag) + 1) * cellH - config.Pad) >>
            /\ (config = DefaultConfig /\ s = Str12c0) =>
                  corners = <<WordOf(55), WordOf(5), WordOf(145), WordOf(45)>>
            /\ (config = DefaultConfig /\ s = Str0c0) =>
                  corners = <<WordOf(5), WordOf(5), WordOf(45), WordOf(45)>>

\* "1-2,0" has been mapped under the default configuration
C8_Witness ==
    /\ pc = "mapped"
    /\ config = DefaultConfig
    /\ s = Str12c0
    /\ dp.min.minX = WordOf(55)
    /\ dp.max.maxX = WordOf(145)

----------------------------------------------------------------------------
(* C9 *)

RECURSIVE ExactFrom(_, _, _, _)
ExactFrom(ds, m, k, c) ==
    IF k = 0
    THEN IF c = 0 THEN <<>>
         ELSE <<Digits[(c % 10) + 1]>> \o ExactFrom(ds, m, 0, c \div 10)
    ELSE LET t == DigitVal(ds[k]) * m + c
         IN  <<Digits[(t % 10) + 1]>> \o ExactFrom(ds, m, k - 1, t \div 10)

RECURSIVE Reverse(_)
Reverse(ds) == IF Len(ds) = 0 THEN <<>> ELSE Append(Reverse(Tail(ds)), Head(ds))

\* the magnitude mag * m + c, for m >= 0 and mag * m + c >= 0
ExactMag(mag, m, c) == Canon(Reverse(ExactFrom(mag, m, Len(mag), c)))

\* the integer of a number of the model
ExactOf(n) == [neg |-> n < 0, mag |-> ExactMag(<<"0">>, 0, IF n < 0 THEN 0 - n ELSE n)]

\* the integer v * m + c
Exact(v, m, c) ==
    LET neg  == v.neg # (m < 0)
        am   == IF m < 0 THEN 0 - m ELSE m
        e    == IF neg THEN 0 - c ELSE c
        prod == ExactMag(v.mag, am, 0)
    IN  IF e >= 0 \/ ~DigitsLess(prod, ExactOf(e).mag)
        THEN LET mag == ExactMag(v.mag, am, e)
             IN  [neg |-> neg /\ mag # <<"0">>, mag |-> mag]
        ELSE [neg |-> ~neg, mag |-> ExactOf((0 - e) - DecimalValue(prod)).mag]

\* the integer v is a value of int
FitsInt(v) ==
    IF v.neg THEN ~DigitsLess(MinIntDigits, v.mag) ELSE ~DigitsLess(MaxIntDigits, v.mag)

\* the rectangle of the cell in column or row c, of size cell, stays inside
\* int: c*cell, c*cell + pad, c + 1, (c+1)*cell and (c+1)*cell - pad
CellFitsInt(c, cell, pad) ==
    /\ FitsInt(Exact(c, cell, 0))
    /\ FitsInt(Exact(c, cell, pad))
    /\ FitsInt(Exact(c, 1, 1))
    /\ FitsInt(Exact(Exact(c, 1, 1), cell, 0))
    /\ FitsInt(Exact(Exact(c, 1, 1), cell, 0 - pad))

\* the rectangles of the start and end cells of args[k] stay inside int
RectanglesFitInt(k) ==
    LET m     == CoordsOfArg(k)
        cellW == GoDiv(config.Width, config.Column)
        cellH == GoDiv(config.Height, config.Row)
    IN  /\ CellFitsInt(m.x, cellW, config.Pad)
        /\ CellFitsInt(m.x2, cellW, config.Pad)
        /\ CellFitsInt(m.y, cellH, config.Pad)
        /\ CellFitsInt(m.y2, cellH, config.Pad)

----------------------------------------------------------------------------
(* C10 *)

\* C10: when minMaxXY returns without error, x, y, x2 and y2 are all
\* non-negative; a string whose token before or after the comma has a
\* negative number in it is rejected.
C10_NoNegativeCoordinates ==
    Parsed =>
        /\ ~res.err => (~res.x.neg /\ ~res.y.neg /\ ~res.x2.neg /\ ~res.y2.neg)
        /\ (/\ Contains(s, ",")
            /\ \/ IsNegativeToken(Split(s, ",")[1])
               \/ IsNegativeToken(Split(s, ",")[2]))
              => res.err

\* one of "-3", "-1-2", "1--3" as the x token, with a good y token, has been rejected
C10_Witness ==
    /\ pc = "parsed"
    /\ Contains(s, ",")
    /\ Split(s, ",")[1] \in { <<"-", "3">>, <<"-", "1", "-", "2">>,
                              <<"1", "-", "-", "3">> }
    /\ IsToken(Split(s, ",")[2])
    /\ res.err

====
